---- MODULE Spec2Model ----
(***************************************************************************)
(* Model of src/app/main.py: the calculator operations, the operation      *)
(* factory, the Calculation record, CalculatorWithObserver (history,       *)
(* observers, CSV persistence) and the command loop of calculator().       *)
(*                                                                         *)
(* Numbers.  The operands typed at the prompt are the floats 0.0 and 1.0,   *)
(* written as the integers 0 and 1: zero and a non-zero value, the only    *)
(* distinction the code makes between operands (Division.execute).  A      *)
(* computed result is an exact fraction <<n, d>> in lowest terms with      *)
(* d > 0; <<0, 0>> stands for "no value".                                  *)
(* Exceptions.  A call that may raise yields a record whose field exc is   *)
(* "none" or the name of the Python exception class that escapes it.       *)
(* An operation object is written as the name of its class; the Python     *)
(* value None is written as the name of its class, "NoneType".             *)
(***************************************************************************)
EXTENDS Integers, Sequences, FiniteSets, TLC

\* ----------------------------------------------------------------- bounds
MaxHist == 2
MaxObservers == 2

\* the operand values a user may type at the prompt
Operands == {0, 1}
\* the observer objects that may be registered
ObserverIds == {"o1", "o2"}

\* ------------------------------------------------------ values and helpers
None == "NoneType"
NoExc == "none"
NoVal == <<0, 0>>

RECURSIVE GCD(_, _)
GCD(x, y) == IF y = 0 THEN x ELSE GCD(y, x % y)

Abs(x) == IF x < 0 THEN -x ELSE x

\* the quotient n / d (d # 0) in lowest terms
Frac(n, d) ==
    LET g == GCD(Abs(n), Abs(d))
        s == IF d < 0 THEN -1 ELSE 1
    IN  <<(s * n) \div g, (s * d) \div g>>

\* the operation names a user may type at the prompt
Names == {"add", "subtract", "multiply", "divide", "ADD", "bogus"}

\* str.lower() on the strings that occur: typed names and class names
Lower(s) ==
    CASE s = "ADD" -> "add"
      [] s = "Addition" -> "addition"
      [] s = "Subtraction" -> "subtraction"
      [] s = "Multiplication" -> "multiplication"
      [] s = "Division" -> "division"
      [] s = "NoneType" -> "nonetype"
      [] OTHER -> s

\* ------------------------------------------------------------- operations
\* TemplateOperation.validate_inputs: TRUE iff it does not raise
validate_inputs(a, b) == a \in Int /\ b \in Int

\* the execute method of each concrete operation class
execute(op, a, b) ==
    CASE op = "Addition" -> [exc |-> NoExc, val |-> <<a + b, 1>>]
      [] op = "Subtraction" -> [exc |-> NoExc, val |-> <<a - b, 1>>]
      [] op = "Multiplication" -> [exc |-> NoExc, val |-> <<a * b, 1>>]
      [] op = "Division" ->
            IF b = 0 THEN [exc |-> "ValueError", val |-> NoVal]
            ELSE [exc |-> NoExc, val |-> Frac(a, b)]

\* operation.calculate(a, b); on None the attribute lookup itself raises
calculate(op, a, b) ==
    IF op = None THEN [exc |-> "AttributeError", val |-> NoVal]
    ELSE IF ~validate_inputs(a, b) THEN [exc |-> "ValueError", val |-> NoVal]
    ELSE execute(op, a, b)

operations_map ==
    [k \in {"add", "subtract", "multiply", "divide"} |->
        CASE k = "add" -> "Addition"
          [] k = "subtract" -> "Subtraction"
          [] k = "multiply" -> "Multiplication"
          [] k = "divide" -> "Division"]

\* a create_operation that falls back to Addition for a missing key
create_operation_default(operation) ==
    IF Lower(operation) \in DOMAIN operations_map
    THEN operations_map[Lower(operation)]
    ELSE "Addition"

\* OperationFactory.create_operation: dict.get gives None for a missing key
create_operation(operation) ==
    IF Lower(operation) \in DOMAIN operations_map
    THEN operations_map[Lower(operation)]
    ELSE None

\* ------------------------------------------------------------ Calculation
Calculation(op, a, b) == [operation |-> op, operand1 |-> a, operand2 |-> b]

\* Calculation.__str__ recomputes the result; the exception it raises
Calculation_str(calc) == calculate(calc.operation, calc.operand1, calc.operand2).exc

\* the first exception raised when the results of the records h[i..] are
\* recomputed in order
RECURSIVE FirstExc(_, _)
FirstExc(h, i) ==
    IF i > Len(h) THEN NoExc
    ELSE IF Calculation_str(h[i]) # NoExc THEN Calculation_str(h[i])
    ELSE FirstExc(h, i + 1)

\* ------------------------------------------------- CalculatorWithObserver
\* one call observer.update(calculation)
Update(o, calc) == [observer |-> o, calculation |-> calc]

\* the loop of notify_observers from position i on: observers are called in
\* list order; HistoryObserver.update formats the calculation
\* (Calculation.__str__), and so does the debug line after it; the first
\* exception ends the loop.  invoked lists the calls of update made so far
RECURSIVE notify_from(_, _, _, _)
notify_from(obs, calc, i, invoked) ==
    IF i > Len(obs) THEN [exc |-> NoExc, invoked |-> invoked]
    ELSE IF Calculation_str(calc) # NoExc
         THEN [exc |-> Calculation_str(calc), invoked |-> Append(invoked, Update(obs[i], calc))]
         ELSE notify_from(obs, calc, i + 1, Append(invoked, Update(obs[i], calc)))

Reverse(q) == [i \in 1 .. Len(q) |-> q[Len(q) + 1 - i]]

\* a notify_observers that walks the list from its end
notify_observers_reversed(obs, calc) == notify_from(Reverse(obs), calc, 1, <<>>)

notify_observers(obs, calc) == notify_from(obs, calc, 1, <<>>)

\* one row of the CSV file as save_history builds it
Row(calc) ==
    [Operation |-> calc.operation,
     Operand1 |-> calc.operand1,
     Operand2 |-> calc.operand2,
     Result |-> calculate(calc.operation, calc.operand1, calc.operand2).val]

NoFile == [exists |-> FALSE, rows |-> <<>>]

\* a save_history that writes row by row and stops at the record whose
\* result it cannot recompute
save_history_partial(h, f, w) ==
    IF ~w THEN [exc |-> IF FirstExc(h, 1) # NoExc THEN FirstExc(h, 1) ELSE "OSError",
                file |-> f]
    ELSE IF FirstExc(h, 1) # NoExc
    THEN LET k == CHOOSE i \in 1 .. Len(h) :
                    /\ Calculation_str(h[i]) # NoExc
                    /\ \A j \in 1 .. i - 1 : Calculation_str(h[j]) = NoExc
         IN  [exc |-> FirstExc(h, 1),
              file |-> [exists |-> TRUE, rows |-> [i \in 1 .. k - 1 |-> Row(h[i])]]]
    ELSE [exc |-> NoExc, file |-> [exists |-> TRUE, rows |-> [i \in 1 .. Len(h) |-> Row(h[i])]]]

\* a save_history that adds its rows after the rows the file already holds
save_history_appending(h, f, w) ==
    IF FirstExc(h, 1) # NoExc THEN [exc |-> FirstExc(h, 1), file |-> f]
    ELSE IF ~w THEN [exc |-> "OSError", file |-> f]
    ELSE [exc |-> NoExc,
          file |-> [exists |-> TRUE, rows |-> f.rows \o [i \in 1 .. Len(h) |-> Row(h[i])]]]

\* save_history: every result is recomputed before anything is written; the
\* file is rewritten in full; an empty history writes a file without header;
\* w tells whether the path can be written (to_csv raises an OSError when it
\* cannot)
save_history(h, f, w) ==
    IF FirstExc(h, 1) # NoExc THEN [exc |-> FirstExc(h, 1), file |-> f]
    ELSE IF ~w THEN [exc |-> "OSError", file |-> f]
    ELSE [exc |-> NoExc, file |-> [exists |-> TRUE, rows |-> [i \in 1 .. Len(h) |-> Row(h[i])]]]

\* a load_history that keeps the Result column of a row in the record
load_history_keeping_result(f) ==
    IF ~f.exists THEN [exc |-> NoExc, history |-> <<>>]
    ELSE IF f.rows = <<>> THEN [exc |-> "ValueError", history |-> <<>>]
    ELSE [exc |-> NoExc,
          history |-> [i \in 1 .. Len(f.rows) |->
                          [operation |-> create_operation(Lower(f.rows[i].Operation)),
                           operand1 |-> f.rows[i].Operand1,
                           operand2 |-> f.rows[i].Operand2,
                           result |-> f.rows[i].Result]]]

\* a load_history that reads the file without asking whether it exists
load_history_strict(f) ==
    IF ~f.exists \/ f.rows = <<>> THEN [exc |-> "OSError", history |-> <<>>]
    ELSE [exc |-> NoExc,
          history |-> [i \in 1 .. Len(f.rows) |->
                          Calculation(create_operation(Lower(f.rows[i].Operation)),
                                      f.rows[i].Operand1, f.rows[i].Operand2)]]

\* load_history: only Operation, Operand1 and Operand2 of a row are read;
\* read_csv raises EmptyDataError (a ValueError) on a file without header
load_history(f) ==
    IF ~f.exists THEN [exc |-> NoExc, history |-> <<>>]
    ELSE IF f.rows = <<>> THEN [exc |-> "ValueError", history |-> <<>>]
    ELSE [exc |-> NoExc,
          history |-> [i \in 1 .. Len(f.rows) |->
                          Calculation(create_operation(Lower(f.rows[i].Operation)),
                                      f.rows[i].Operand1, f.rows[i].Operand2)]]

RECURSIVE Repeat(_, _)
Repeat(e, n) == IF n = 0 THEN <<>> ELSE Append(Repeat(e, n - 1), e)

\* the history and the file as they are while notify_observers runs
Seen(h, f) == [history |-> h, file |-> f]
NoSeen == Seen(<<>>, NoFile)

\* a perform_operation that puts the new record in front of the history
perform_operation_prepend(h, obs, f, w, op, a, b) ==
    LET calc == Calculation(op, a, b)
        h1 == <<calc>> \o h
        n == notify_observers(obs, calc)
        ev1 == <<"append">> \o Repeat("notify", Len(n.invoked))
        s == save_history(h1, f, w)
        r == calculate(op, a, b)
    IN  IF n.exc # NoExc \/ s.exc # NoExc \/ r.exc # NoExc
        THEN [exc |-> IF n.exc # NoExc THEN n.exc
                      ELSE IF s.exc # NoExc THEN s.exc ELSE r.exc,
              history |-> h1, file |-> f, result |-> NoVal,
              invoked |-> n.invoked, events |-> ev1, seen |-> Seen(h1, f)]
        ELSE [exc |-> NoExc, history |-> h1, file |-> s.file, result |-> r.val,
              invoked |-> n.invoked, events |-> ev1 \o <<"save", "return">>,
              seen |-> Seen(h1, f)]

\* a perform_operation that saves the history before it notifies
perform_operation_save_first(h, obs, f, w, op, a, b) ==
    LET calc == Calculation(op, a, b)
        h1 == Append(h, calc)
        s == save_history(h1, f, w)
        n == notify_observers(obs, calc)
        ev == <<"append", "save">> \o Repeat("notify", Len(n.invoked))
        r == calculate(op, a, b)
    IN  IF s.exc # NoExc
        THEN [exc |-> s.exc, history |-> h1, file |-> f, result |-> NoVal,
              invoked |-> <<>>, events |-> <<"append">>, seen |-> Seen(h1, f)]
        ELSE IF n.exc # NoExc \/ r.exc # NoExc
        THEN [exc |-> IF n.exc # NoExc THEN n.exc ELSE r.exc, history |-> h1,
              file |-> s.file, result |-> NoVal,
              invoked |-> n.invoked, events |-> ev, seen |-> Seen(h1, s.file)]
        ELSE [exc |-> NoExc, history |-> h1, file |-> s.file, result |-> r.val,
              invoked |-> n.invoked, events |-> ev \o <<"return">>,
              seen |-> Seen(h1, s.file)]

\* perform_operation: append, notify, debug line, save, return; seen is the
\* state of history and file at the call of notify_observers
perform_operation(h, obs, f, w, op, a, b) ==
    LET calc == Calculation(op, a, b)
        h1 == Append(h, calc)
        n == notify_observers(obs, calc)
        ev1 == <<"append">> \o Repeat("notify", Len(n.invoked))
        s == save_history(h1, f, w)
        r == calculate(op, a, b)
    IN  IF n.exc # NoExc
        THEN [exc |-> n.exc, history |-> h1, file |-> f, result |-> NoVal,
              invoked |-> n.invoked, events |-> ev1, seen |-> Seen(h1, f)]
        ELSE IF Calculation_str(calc) # NoExc
        THEN [exc |-> Calculation_str(calc), history |-> h1, file |-> f, result |-> NoVal,
              invoked |-> n.invoked, events |-> ev1, seen |-> Seen(h1, f)]
        ELSE IF s.exc # NoExc
        THEN [exc |-> s.exc, history |-> h1, file |-> f, result |-> NoVal,
              invoked |-> n.invoked, events |-> ev1, seen |-> Seen(h1, f)]
        ELSE IF r.exc # NoExc
        THEN [exc |-> r.exc, history |-> h1, file |-> s.file, result |-> NoVal,
              invoked |-> n.invoked, events |-> ev1 \o <<"save">>, seen |-> Seen(h1, f)]
        ELSE [exc |-> NoExc, history |-> h1, file |-> s.file, result |-> r.val,
              invoked |-> n.invoked, events |-> ev1 \o <<"save", "return">>,
              seen |-> Seen(h1, f)]

\* ------------------------------------------------------------------ state
VARIABLES
    pc,         \* "prompt": calculator() waits at input(); "exited"; "crashed"
    history,    \* calc._history
    observers,  \* calc._observers
    file,       \* the CSV file at history_file
    writable,   \* whether the path history_file can be written
    last        \* the last step taken and what its caller saw; a and b are the
                \* operands handed to perform_operation (0 when it was not called),
                \* seen is what perform_operation's observers could see, note
                \* says what the step started from where the result hides it

vars == <<pc, history, observers, file, writable, last>>

Last(cmd, name, a, b, outcome, exc, result, invoked, events) ==
    [cmd |-> cmd, name |-> name, a |-> a, b |-> b, outcome |-> outcome,
     exc |-> exc, result |-> result, invoked |-> invoked, events |-> events,
     seen |-> NoSeen, note |-> ""]

Simple(cmd, outcome, exc) == Last(cmd, "", 0, 0, outcome, exc, NoVal, <<>>, <<>>)

\* an exception that no handler of calculator() catches ends the process
Uncaught(exc) == IF exc = NoExc THEN "prompt" ELSE "crashed"
Outcome(exc) == IF exc = NoExc THEN "ok" ELSE "crash"

\* calculator() up to its first input(), on a path where no file exists yet:
\* calc = CalculatorWithObserver(); calc.add_observer(HistoryObserver())
Init ==
    /\ pc = "prompt"
    /\ history = <<>>
    /\ observers = <<"o1">>
    /\ file = NoFile
    /\ writable = TRUE
    /\ last = Simple("start", "ok", NoExc)

\* a new process runs calculator(): the constructor loads the history (an
\* exception it raises is not caught), then one HistoryObserver is registered
Start ==
    /\ pc # "prompt"
    /\ LET l == load_history(file)
       IN  /\ pc' = Uncaught(l.exc)
           /\ history' = l.history
           /\ last' = Simple("start", Outcome(l.exc), l.exc)
    /\ observers' = <<"o1">>
    /\ UNCHANGED <<file, writable>>

\* calc.add_observer(observer), called by a client of the class with any
\* observer object, registered or not
add_observer ==
    /\ pc = "prompt"
    /\ Len(observers) < MaxObservers
    /\ \E o \in ObserverIds : observers' = Append(observers, o)
    /\ last' = Simple("add_observer", "ok", NoExc)
    /\ UNCHANGED <<pc, history, file, writable>>

\* -------------------------------------------------- commands of calculator()
\* "help": prints the command list
CmdHelp ==
    /\ pc = "prompt"
    /\ last' = Simple("help", "ok", NoExc)
    /\ UNCHANGED <<pc, history, observers, file, writable>>

\* "exit": leaves the loop
CmdExit ==
    /\ pc = "prompt"
    /\ pc' = "exited"
    /\ last' = Simple("exit", "exit", NoExc)
    /\ UNCHANGED <<history, observers, file, writable>>

\* "list": prints every record; print calls Calculation.__str__, outside any try
CmdList ==
    /\ pc = "prompt"
    /\ pc' = Uncaught(FirstExc(history, 1))
    /\ last' = Simple("list", Outcome(FirstExc(history, 1)), FirstExc(history, 1))
    /\ UNCHANGED <<history, observers, file, writable>>

\* a clear command that saves the history before it empties it
CmdClear_save_first ==
    /\ pc = "prompt"
    /\ LET s == save_history(history, file, writable)
       IN  /\ history' = IF s.exc = NoExc THEN <<>> ELSE history
           /\ file' = s.file
           /\ pc' = Uncaught(s.exc)
           /\ last' = [Simple("clear", Outcome(s.exc), s.exc)
                       EXCEPT !.note = FirstExc(history, 1)]
    /\ UNCHANGED <<observers, writable>>

\* "clear": calc._history.clear() then calc.save_history(), outside any try
CmdClear ==
    /\ pc = "prompt"
    /\ LET s == save_history(<<>>, file, writable)
       IN  /\ history' = <<>>
           /\ file' = s.file
           /\ pc' = Uncaught(s.exc)
           /\ last' = [Simple("clear", Outcome(s.exc), s.exc)
                       EXCEPT !.note = FirstExc(history, 1)]
    /\ UNCHANGED <<observers, writable>>

\* "save_history": save_history_manually, outside any try
CmdSave ==
    /\ pc = "prompt"
    /\ LET s == save_history(history, file, writable)
       IN  /\ file' = s.file
           /\ pc' = Uncaught(s.exc)
           /\ last' = [Simple("save_history", Outcome(s.exc), s.exc)
                       EXCEPT !.note = IF last.cmd = "save_history" /\ last.outcome = "ok"
                                       THEN "repeated" ELSE ""]
    /\ UNCHANGED <<history, observers, writable>>

\* a load_history command that makes the loaded list the current history
CmdLoad_installing ==
    /\ pc = "prompt"
    /\ LET l == load_history(file)
       IN  /\ pc' = Uncaught(l.exc)
           /\ history' = IF l.exc = NoExc THEN l.history ELSE history
           /\ last' = Simple("load_history", Outcome(l.exc), l.exc)
    /\ UNCHANGED <<observers, file, writable>>

\* "load_history": load_history_manually; the list it returns is dropped
CmdLoad ==
    /\ pc = "prompt"
    /\ LET l == load_history(file)
       IN  /\ pc' = Uncaught(l.exc)
           /\ last' = Simple("load_history", Outcome(l.exc), l.exc)
    /\ UNCHANGED <<history, observers, file, writable>>

\* a line that does not split into three tokens, or whose operands float()
\* rejects: ValueError, caught by the except clause
CmdMalformed ==
    /\ pc = "prompt"
    /\ last' = Simple("malformed", "invalid", "ValueError")
    /\ UNCHANGED <<pc, history, observers, file, writable>>

\* the except clause catches ValueError only
Caught(exc) == exc \in {NoExc, "ValueError"}

\* "<operation> <num1> <num2>": the try block of calculator()
CmdOp ==
    /\ pc = "prompt"
    /\ \E name \in Names, a \in Operands, b \in Operands :
        LET op == create_operation(name)
            p == perform_operation(history, observers, file, writable, op, a, b)
        IN  IF op = None
            THEN /\ last' = Last("op", name, 0, 0, "unknown", NoExc, NoVal, <<>>, <<>>)
                 /\ UNCHANGED <<pc, history, file, writable>>
            ELSE /\ Len(history) < MaxHist
                 /\ history' = p.history
                 /\ file' = p.file
                 /\ pc' = IF Caught(p.exc) THEN "prompt" ELSE "crashed"
                 /\ last' = [Last("op", name, a, b,
                                  IF p.exc = NoExc THEN "ok"
                                  ELSE IF Caught(p.exc) THEN "invalid" ELSE "crash",
                                  p.exc, p.result, p.invoked, p.events)
                                EXCEPT !.seen = p.seen]
    /\ UNCHANGED <<observers, writable>>

Next ==
    \/ Start
    \/ CmdHelp
    \/ CmdExit
    \/ CmdList
    \/ CmdClear
    \/ CmdSave
    \/ CmdLoad
    \/ CmdMalformed
    \/ CmdOp

Spec == Init /\ [][Next]_vars

\* the same program driven by a client that also registers further observers
NextObs ==
    \/ Next
    \/ add_observer

SpecObs == Init /\ [][NextObs]_vars

\* the environment makes the path of the file unwritable, or writable again
SetWritable ==
    /\ writable' = ~writable
    /\ last' = Simple("chmod", "ok", NoExc)
    /\ UNCHANGED <<pc, history, observers, file>>

\* the same program in an environment where writing the file can fail
NextIO ==
    \/ Next
    \/ SetWritable

SpecIO == Init /\ [][NextIO]_vars

\* the values somebody may write into the Result column of the file
ResultValues == {<<0, 1>>, <<1, 1>>}

\* the Result column of f holds what save_history wrote
ResultsAsSaved(f) ==
    \A i \in 1 .. Len(f.rows) :
        f.rows[i].Result =
            calculate(f.rows[i].Operation, f.rows[i].Operand1, f.rows[i].Operand2).val

\* somebody edits the Result column of one row of the file as the program
\* wrote it; the other columns stay
EditResult ==
    /\ file.exists
    /\ ResultsAsSaved(file)
    /\ \E i \in 1 .. Len(file.rows), v \in ResultValues :
        /\ v # file.rows[i].Result
        /\ file' = [file EXCEPT !.rows[i].Result = v]
    /\ last' = Simple("edit_result", "ok", NoExc)
    /\ UNCHANGED <<pc, history, observers, writable>>

\* the same program on a file whose Result column is edited by hand
NextForeign ==
    \/ Next
    \/ EditResult

SpecForeign == Init /\ [][NextForeign]_vars

\* ----------------------------------------------------------------- claims
\* the class an operation name of the registry stands for, and the value the
\* operation has in arithmetic
ClassOf(name) == operations_map[Lower(name)]

Math(name, a, b) ==
    CASE Lower(name) = "add" -> <<a + b, 1>>
      [] Lower(name) = "subtract" -> <<a - b, 1>>
      [] Lower(name) = "multiply" -> <<a * b, 1>>

\* the rows of file f are the records of h, in order
FileReflects(h, f) ==
    /\ f.exists
    /\ Len(f.rows) = Len(h)
    /\ \A i \in 1 .. Len(h) :
        /\ f.rows[i].Operation = h[i].operation
        /\ f.rows[i].Operand1 = h[i].operand1
        /\ f.rows[i].Operand2 = h[i].operand2

\* the last step was an operation command that reached perform_operation
Performed == last.cmd = "op" /\ last.events # <<>>

\* C1: a divide command with second operand 0 fails with the division error
\* and leaves the in-memory history as it was before the command.
C1_DivideByZeroAppendsNothing ==
    [][(last'.cmd = "op" /\ Lower(last'.name) = "divide" /\ last'.b = 0
            /\ last'.events # <<>>)
        => (last'.exc = "ValueError" /\ history' = history)]_vars

\* C2: a new calculator constructed on the file that holds the saved history
\* of successful operations loads that history back: as many records, the same
\* operation and operands in the same order, results that recompute.
C2_SaveLoadRoundTrip ==
    [][(pc # "prompt" /\ last'.cmd = "start"
            /\ FirstExc(history, 1) = NoExc
            /\ history # <<>>
            /\ file.exists
            /\ file.rows = [i \in 1 .. Len(history) |-> Row(history[i])])
        => (/\ history' = history
            /\ \A i \in 1 .. Len(history') :
                  calculate(history'[i].operation, history'[i].operand1,
                            history'[i].operand2).val = file.rows[i].Result)]_vars

\* C3: when a command that appended a record or cleared the history has
\* finished and the calculator waits for the next command, the rows of the
\* file are the records of the in-memory history, in order.
C3_WriteThrough ==
    (pc = "prompt" /\ (Performed \/ last.cmd = "clear")) => FileReflects(history, file)

\* C4: in every state, an add, subtract or multiply command returns a+b, a-b
\* or a*b and the history grows by exactly the record (operation, a, b).
C4_ArithmeticResultAndOneRecord ==
    [][(last'.cmd = "op" /\ Lower(last'.name) \in {"add", "subtract", "multiply"})
        => (/\ last'.outcome = "ok"
            /\ last'.result = Math(last'.name, last'.a, last'.b)
            /\ history' = Append(history,
                    Calculation(ClassOf(last'.name), last'.a, last'.b)))]_vars

\* a record of h is bound to the missing-operation marker
HasMissing(h) == \E i \in 1 .. Len(h) : h[i].operation = None

\* C5: when the history holds a loaded record whose operation name did not
\* resolve, listing or saving the history fails with an unknown-operation
\* error, not with a null-reference fault and not by succeeding.
C5_MissingOperationIsUnknownOperation ==
    (last.cmd \in {"list", "save_history"} /\ HasMissing(history))
        => last.exc = "UnknownOperation"

\* an update call of the last operation raised
ObserverRaised ==
    /\ Performed
    /\ last.invoked # <<>>
    /\ Calculation_str(last.invoked[Len(last.invoked)].calculation) # NoExc

\* C6: when an observer's update raises, the observers after it are still
\* called once each, the history is still saved and the result is returned.
C6_ObserverIsolation ==
    ObserverRaised =>
        /\ Len(last.invoked) = Len(observers)
        /\ FileReflects(history, file)
        /\ last.outcome = "ok"

\* C7: only the exit command ends the command loop; after any other command
\* the calculator waits for the next one.
C7_OnlyExitEndsLoop ==
    last.cmd \in {"help", "list", "clear", "save_history", "load_history",
                  "malformed", "op"} => pc = "prompt"

\* C8: an operation command whose name is not in the registry is reported as
\* unknown, calls no observer and changes neither the history nor the file.
C8_UnknownOperationNoEffect ==
    [][(last'.cmd = "op" /\ Lower(last'.name) \notin DOMAIN operations_map)
        => (/\ last'.outcome = "unknown"
            /\ last'.invoked = <<>>
            /\ last'.events = <<>>
            /\ history' = history
            /\ file' = file
            /\ pc' = "prompt")]_vars

C8_Witness ==
    /\ last.cmd = "op"
    /\ last.name = "bogus"
    /\ last.outcome = "unknown"
    /\ history # <<>>
    /\ file.exists

\* C9: when writing the file fails in save_history, the error is reported,
\* the process goes on, and the in-memory history keeps its records.
C9_WriteFailureNotFatal ==
    last.exc = "OSError" => pc = "prompt"

\* C10: after a successful perform_operation, update has been called once per
\* registered observer, with the appended record, in registration order.
C10_ObserversNotifiedInOrder ==
    (Performed /\ last.outcome = "ok") =>
        /\ history # <<>>
        /\ last.invoked = [i \in 1 .. Len(observers) |->
                              Update(observers[i], history[Len(history)])]

C10_Witness ==
    /\ Performed
    /\ last.outcome = "ok"
    /\ Len(observers) = 2
    /\ observers[1] # observers[2]
    /\ Len(last.invoked) = 2

\* C11: a save_history command that directly follows a successful
\* save_history command succeeds and leaves the file with the same content.
C11_SaveIdempotent ==
    [][(last.cmd = "save_history" /\ last.outcome = "ok" /\ last'.cmd = "save_history")
        => (last'.outcome = "ok" /\ file' = file)]_vars

C11_Witness ==
    /\ last.cmd = "save_history"
    /\ last.note = "repeated"
    /\ last.outcome = "ok"
    /\ file.exists
    /\ file.rows # <<>>

\* C12: when no file exists, loading the history raises nothing and creates no
\* file, and a calculator constructed then starts at the prompt with an empty
\* history.
C12_NoFileLoadsEmpty ==
    [][(last'.cmd \in {"start", "load_history"} /\ ~file.exists)
        => (/\ last'.exc = NoExc
            /\ pc' = "prompt"
            /\ ~file'.exists
            /\ (last'.cmd = "start" => history' = <<>>))]_vars

C12_Witness ==
    /\ last.cmd = "load_history"
    /\ last.outcome = "ok"
    /\ ~file.exists
    /\ history # <<>>

\* C13: two files that differ only in the Result column of a row load to the
\* same sequence of records, and a loaded record has no field for a result.
C13_ResultColumnNotRead ==
    [][last'.cmd = "edit_result"
        => (/\ load_history(file') = load_history(file)
            /\ \A i \in 1 .. Len(load_history(file').history) :
                  DOMAIN load_history(file').history[i]
                      = {"operation", "operand1", "operand2"})]_vars

C13_Witness ==
    /\ last.cmd = "edit_result"
    /\ file.rows # <<>>
    /\ ~ResultsAsSaved(file)
    /\ load_history(file).history # <<>>

\* C14: in perform_operation the record is appended, then the observers are
\* notified, then the history is saved, then the result is returned: when the
\* observers are notified the history already ends with the new record and
\* the file is still the file from before the call.
C14_AppendNotifySaveReturn ==
    [][(last'.cmd = "op" /\ last'.events # <<>>)
        => (/\ last'.seen.history =
                  Append(history, Calculation(ClassOf(last'.name), last'.a, last'.b))
            /\ last'.seen.file = file
            /\ last'.events[1] = "append"
            /\ \A i \in 2 .. Len(last'.invoked) + 1 : last'.events[i] = "notify"
            /\ (last'.outcome = "ok" =>
                  /\ last'.events = <<"append">> \o Repeat("notify", Len(observers))
                                        \o <<"save", "return">>
                  /\ FileReflects(history', file')))]_vars

C14_Witness ==
    /\ Performed
    /\ last.outcome = "ok"
    /\ last.invoked # <<>>
    /\ last.seen.history = history
    /\ last.seen.file # file
    /\ last.seen.file.exists

\* p is q or q with records added at its end
IsPrefix(q, p) == Len(q) <= Len(p) /\ \A i \in 1 .. Len(q) : p[i] = q[i]

\* the steps that are commands typed at the prompt
Commands == {"help", "exit", "list", "clear", "save_history", "load_history",
             "malformed", "op"}

\* C15: every command but clear keeps the history it found as the beginning
\* of the history it leaves; only an operation command adds to it, one record
\* at the end.
C15_AppendOnlyBetweenClears ==
    [][(last'.cmd \in Commands \ {"clear"})
        => (/\ IsPrefix(history, history')
            /\ Len(history') <= Len(history) + 1
            /\ (history' # history => last'.cmd = "op" /\ last'.events # <<>>))]_vars

C15_Witness ==
    /\ Performed
    /\ Len(history) = 2
    /\ history[1] # history[2]
    /\ history[1].operation # None

\* the operation command of last' names a registered operation and does not
\* divide by zero
ValidOperation ==
    /\ last'.cmd = "op"
    /\ Lower(last'.name) \in DOMAIN operations_map
    /\ ~(Lower(last'.name) = "divide" /\ last'.b = 0)

\* C16: in every state the clear command ends without error with an empty
\* history and a file of zero records, and a valid operation typed right
\* after it succeeds.
C16_ClearRecovers ==
    [][/\ last'.cmd = "clear"
            => (/\ last'.outcome = "ok"
                /\ pc' = "prompt"
                /\ history' = <<>>
                /\ file'.exists
                /\ file'.rows = <<>>)
       /\ (last.cmd = "clear" /\ ValidOperation)
            => (/\ last'.outcome = "ok"
                /\ last'.result # NoVal
                /\ Len(history') = 1
                /\ FileReflects(history', file'))]_vars

C16_Witness ==
    /\ last.cmd = "clear"
    /\ last.note # NoExc
    /\ last.outcome = "ok"
    /\ pc = "prompt"
    /\ history = <<>>
    /\ file.exists
    /\ file.rows = <<>>

\* C17: the load_history command changes neither the in-memory history nor
\* the observers nor the file: what it reads is not made the current history.
C17_LoadCommandChangesNothing ==
    [][last'.cmd = "load_history"
        => (/\ history' = history
            /\ observers' = observers
            /\ file' = file)]_vars

C17_Witness ==
    /\ last.cmd = "load_history"
    /\ last.outcome = "ok"
    /\ file.rows # <<>>
    /\ history # <<>>
    /\ load_history(file).history # history

\* C18: a perform_operation that ends in an error leaves the file as it was;
\* a command changes the file only by a save in which the result of every
\* record of the history was recomputed, and the file then holds that history.
C18_FailedOperationKeepsFile ==
    [][/\ (last'.cmd = "op" /\ last'.events # <<>> /\ last'.exc # NoExc)
            => file' = file
       /\ (last'.cmd \in Commands /\ file' # file)
            => (/\ FirstExc(history', 1) = NoExc
                /\ FileReflects(history', file'))]_vars

C18_Witness ==
    /\ Performed
    /\ last.exc # NoExc
    /\ Calculation_str(history[Len(history)]) = NoExc
    /\ file.exists
    /\ file.rows # <<>>

====
